---- MODULE Spec2Model ----
(***************************************************************************)
(* A model of the EFPL tree-walking interpreter (src/efpl.py): the AST     *)
(* node classes, their eval/apply methods, the binding tables (Python      *)
(* dicts) and the error messages the raise statements format.              *)
(*                                                                         *)
(* Values.  A node is a record tagged by its class in field k:             *)
(*   Id, Str      v = the text           (both subclasses of Python str)   *)
(*   Num          n/d = the value as a normalised fraction (Python float)  *)
(*   List, Args, Pars, Cases   v = the sequence of elements (Python tuple) *)
(*   Case         cond, body             (plain object)                    *)
(*   Fn           pars, body             (plain Expr)                      *)
(*   App, App_infix   obj, args          (plain Expr)                      *)
(*   Error        v = the exception raised;   None   Python's None         *)
(* A table (dict) is a sequence of <<key, value>> pairs in insertion order.*)
(* Object identity of Fn/App/Case objects is modelled by structural        *)
(* equality: one structure stands for one object.                          *)
(***************************************************************************)
EXTENDS Integers, Sequences, FiniteSets, TLC

VARIABLES defs, op, subject, argv, res

vars == <<defs, op, subject, argv, res>>

(* ------------------------------ bounds --------------------------------- *)

\* Nested Fn.apply frames allowed before the host raises RecursionError.
MaxDepth == 4

(* --------------------------- node classes ------------------------------ *)

Id(s) == [k |-> "Id", v |-> s]

Str(s) == [k |-> "Str", v |-> s]

Frac(a, b) == [k |-> "Num", n |-> a, d |-> b]

Num(a) == Frac(a, 1)

List(es) == [k |-> "List", v |-> es]

Args(es) == [k |-> "Args", v |-> es]

Pars(es) == [k |-> "Pars", v |-> es]

Case(c, b) == [k |-> "Case", cond |-> c, body |-> b]

Cases(cs) == [k |-> "Cases", v |-> cs]

Fn(p, b) == [k |-> "Fn", pars |-> p, body |-> b]

App(o, a) == [k |-> "App", obj |-> o, args |-> a]

App_infix(o, a) == [k |-> "App_infix", obj |-> o, args |-> a]

None == [k |-> "None", v |-> ""]

Err(e) == [k |-> "Error", v |-> e]

IsErr(x) == x.k = "Error"

IsText(x) == x.k \in {"Id", "Str"}

IsNum(x) == x.k = "Num"

IsTuple(x) == x.k \in {"List", "Args", "Pars", "Cases"}

\* An evaluation outcome: the value returned or the exception raised (r),
\* and the contents of the caller's table object afterwards (t).
R(r, t) == [r |-> r, t |-> t]

(* ------------------- equality and hashing of nodes --------------------- *)

\* Id and Str inherit __eq__/__hash__ from str, Num from float, the list
\* classes from tuple; Fn, App and Case keep object identity.
RECURSIVE PyEq(_, _)
PyEq(a, b) ==
  IF IsText(a) /\ IsText(b) THEN a.v = b.v
  ELSE IF IsNum(a) /\ IsNum(b) THEN a.n * b.d = b.n * a.d
  ELSE IF IsTuple(a) /\ IsTuple(b)
    THEN /\ Len(a.v) = Len(b.v)
         /\ \A i \in 1..Len(a.v) : PyEq(a.v[i], b.v[i])
  ELSE IF a.k = b.k /\ ~IsText(a) /\ ~IsNum(a) /\ ~IsTuple(a) THEN a = b
  ELSE FALSE

(* ------------------------------ tables --------------------------------- *)

\* `key in table`
HasKey(table, key) == \E i \in 1..Len(table) : PyEq(table[i][1], key)

\* `table[key]`, for a key that is in the table
Lookup(table, key) ==
  table[CHOOSE i \in 1..Len(table) : PyEq(table[i][1], key)][2]

\* dict(zip(pars, args)): a later duplicate parameter overwrites the value
\* under the first one's key.
RECURSIVE Zip(_, _, _, _)
Zip(ps, as, i, acc) ==
  IF i > Len(ps) \/ i > Len(as) THEN acc
  ELSE IF HasKey(acc, ps[i])
    THEN Zip(ps, as, i + 1,
             [j \in 1..Len(acc) |->
                IF PyEq(acc[j][1], ps[i]) THEN <<acc[j][1], as[i]>> ELSE acc[j]])
    ELSE Zip(ps, as, i + 1, Append(acc, <<ps[i], as[i]>>))

\* The merged table of `a | b`: a's keys in a's order with b's values where
\* b has the key, then b's other keys.
RECURSIVE Merge(_, _, _)
Merge(a, b, i) ==
  IF i > Len(b) THEN a
  ELSE IF HasKey(a, b[i][1])
    THEN Merge([j \in 1..Len(a) |->
                  IF PyEq(a[j][1], b[i][1]) THEN <<a[j][1], b[i][2]>> ELSE a[j]],
               b, i + 1)
    ELSE Merge(Append(a, b[i]), b, i + 1)

\* In-place update (dict.update / |=): the left operand becomes the merge.
DictOrInPlace(a, b) == [res |-> Merge(a, b, 1), lhs |-> Merge(a, b, 1)]

\* `a | b`: res is the new dict, lhs is a afterwards (left as it was).
DictOr(a, b) == [res |-> Merge(a, b, 1), lhs |-> a]

(* ----------------- str() and repr() of nodes, as raised ---------------- *)

\* The first exception in a left-to-right sequence of outcomes ("" = none).
RECURSIVE FirstErr(_)
FirstErr(es) ==
  IF es = <<>> THEN ""
  ELSE IF Head(es) # "" THEN Head(es)
  ELSE FirstErr(Tail(es))

\* StrErr(x) / ReprErr(x): the exception str(x) / repr(x) raises, "" when
\* it returns.  Str.__str__ reads super().self and raises AttributeError;
\* List.__str__ formats a single element with '[%s]' % self[0], which takes
\* a tuple element as the whole argument tuple; longer lists, and a table,
\* go through repr; Fn has only __repr__, which uses str of pars and body.
RECURSIVE StrErr(_), ReprErr(_), ListStrErr(_)
ListStrErr(es) ==
  IF Len(es) = 1
    THEN IF IsTuple(es[1])
           THEN IF Len(es[1].v) = 1 THEN StrErr(es[1].v[1]) ELSE "TypeError"
           ELSE StrErr(es[1])
    ELSE FirstErr([i \in 1..Len(es) |-> ReprErr(es[i])])

StrErr(x) ==
  CASE x.k = "Str" -> "AttributeError"
    [] x.k \in {"List", "Args", "Pars"} -> ListStrErr(x.v)
    [] x.k = "Cases" -> FirstErr([i \in 1..Len(x.v) |-> StrErr(x.v[i])])
    [] x.k = "Case" -> FirstErr(<<StrErr(x.cond), StrErr(x.body)>>)
    [] x.k = "Fn" -> FirstErr(<<StrErr(x.pars), StrErr(x.body)>>)
    [] x.k = "App" -> FirstErr(<<StrErr(x.obj), StrErr(x.args)>>)
    [] x.k = "App_infix" ->
         IF Len(x.args.v) < 2 THEN "IndexError"
         ELSE FirstErr(<<StrErr(x.args.v[1]), StrErr(x.obj), StrErr(x.args.v[2])>>)
    [] OTHER -> ""

ReprErr(x) ==
  CASE IsTuple(x) -> FirstErr([i \in 1..Len(x.v) |-> ReprErr(x.v[i])])
    [] x.k = "Fn" -> FirstErr(<<StrErr(x.pars), StrErr(x.body)>>)
    [] OTHER -> ""

\* str(table): the repr of every key and value, in insertion order.
TableStrErr(table) ==
  FirstErr([i \in 1..(2 * Len(table)) |->
              IF i % 2 = 1 THEN ReprErr(table[(i + 1) \div 2][1])
              ELSE ReprErr(table[i \div 2][2])])

\* raise Exception(fmt % parts): the exception that leaves the raise
\* statement is the first one formatting a part raises, else the Exception.
Raise(what, partErrs) ==
  IF FirstErr(partErrs) # "" THEN Err(FirstErr(partErrs)) ELSE Err(what)

(* ------------------------- numbers and texts --------------------------- *)

RECURSIVE GCD(_, _)
GCD(a, b) == IF b = 0 THEN a ELSE GCD(b, a % b)

Abs(a) == IF a < 0 THEN -a ELSE a

\* Num(float): the value in lowest terms with a positive denominator.
Norm(a, b) ==
  LET g == GCD(Abs(a), Abs(b))
      s == IF b < 0 THEN -1 ELSE 1
  IN Frac((s * a) \div g, (s * b) \div g)

\* The texts of the model in Python's str order (by code point).
TextOrder ==
  <<"+", "-", "1", "11", "==", "a", "f", "false", "g", "h", "main", "s",
    "true", "w", "x", "y", "z">>

Rank(t) == CHOOSE i \in 1..Len(TextOrder) : TextOrder[i] = t

\* float(text): the texts of the model that Python parses as a number.
NumText == [t \in {"1", "11"} |-> IF t = "1" THEN 1 ELSE 11]

FloatOfText(t) ==
  IF t \in DOMAIN NumText THEN Num(NumText[t]) ELSE Err("ValueError")

\* Python's ordering of two values: "lt", "eq", "gt", or "TypeError" when
\* the operand types do not support it (tuples compare at the first pair of
\* elements that are not equal).
RECURSIVE PyCmp(_, _)
PyCmp(a, b) ==
  IF IsNum(a) /\ IsNum(b)
    THEN IF a.n * b.d < b.n * a.d THEN "lt"
         ELSE IF a.n * b.d = b.n * a.d THEN "eq" ELSE "gt"
  ELSE IF IsText(a) /\ IsText(b)
    THEN IF Rank(a.v) < Rank(b.v) THEN "lt"
         ELSE IF a.v = b.v THEN "eq" ELSE "gt"
  ELSE IF IsTuple(a) /\ IsTuple(b)
    THEN LET m == IF Len(a.v) < Len(b.v) THEN Len(a.v) ELSE Len(b.v)
             diff == {i \in 1..m : ~PyEq(a.v[i], b.v[i])}
         IN IF diff = {}
              THEN IF Len(a.v) < Len(b.v) THEN "lt"
                   ELSE IF Len(a.v) = Len(b.v) THEN "eq" ELSE "gt"
              ELSE LET i == CHOOSE j \in diff : \A l \in diff : j <= l
                   IN PyCmp(a.v[i], b.v[i])
  ELSE "TypeError"

\* conv_b
ConvB(b) == IF b THEN Id("true") ELSE Id("false")

Operators == {"==", "<>", "<=", ">=", "<", ">", "+", "-", "*", "/"}

\* The operator arms of `match self.obj` on the evaluated arguments: only
\* args[0] and args[1] are read.
OpResult(o, args) ==
  IF Len(args) < 2 THEN Err("IndexError")
  ELSE LET a == args[1]
           b == args[2]
           c == PyCmp(a, b)
           nums == IsNum(a) /\ IsNum(b)
       IN CASE o = "==" -> ConvB(PyEq(a, b))
            [] o = "<>" -> ConvB(~PyEq(a, b))
            [] o = "<=" -> IF c = "TypeError" THEN Err(c) ELSE ConvB(c \in {"lt", "eq"})
            [] o = ">=" -> IF c = "TypeError" THEN Err(c) ELSE ConvB(c \in {"gt", "eq"})
            [] o = "<" -> IF c = "TypeError" THEN Err(c) ELSE ConvB(c = "lt")
            [] o = ">" -> IF c = "TypeError" THEN Err(c) ELSE ConvB(c = "gt")
            [] o = "+" -> IF nums THEN Norm(a.n * b.d + b.n * a.d, a.d * b.d)
                          ELSE IF IsText(a) /\ IsText(b) THEN FloatOfText(a.v \o b.v)
                          ELSE Err("TypeError")
            [] o = "-" -> IF nums THEN Norm(a.n * b.d - b.n * a.d, a.d * b.d)
                          ELSE Err("TypeError")
            [] o = "*" -> IF nums THEN Norm(a.n * b.n, a.d * b.d)
                          ELSE Err("TypeError")
            [] o = "/" -> IF ~nums THEN Err("TypeError")
                          ELSE IF b.n = 0 THEN Err("ZeroDivisionError")
                          ELSE Norm(a.n * b.d, a.d * b.n)


(* ----------------------------- evaluator ------------------------------- *)

\* A lookup that special-cases identifiers.
ExprEvalIdOnly(self, table) ==
  IF self.k = "Id" /\ HasKey(table, self) THEN R(Lookup(table, self), table)
  ELSE R(self, table)

\* Expr.eval: the bound entry as it is, or the node itself.
ExprEval(self, table) ==
  IF HasKey(table, self) THEN R(Lookup(table, self), table) ELSE R(self, table)

\* Expr.apply: every class but Fn.
ExprApply(self, args, table) ==
  R(Raise("NotCallable", <<StrErr(args), StrErr(self)>>), table)

\* Pars.table: the bindings of a call, or the arity exception.
ParsTable(self, args) ==
  IF Len(self.v) # Len(args.v)
    THEN Raise("Arity", <<StrErr(self), StrErr(args)>>)
    ELSE [k |-> "Table", v |-> Zip(self.v, args.v, 1, <<>>)]

\* A match statement on the evaluated callee.
MatchEvaluated(self, obj) == obj

\* The subject of `match self.obj`: the callee as written, not its value obj.
MatchSubject(self, obj) == self.obj

\* case Id('=='): ... case Id('/'): an Id whose text is an operator.
IsOperator(obj) == obj.k = "Id" /\ obj.v \in Operators

RECURSIVE Eval(_, _, _), EvalElems(_, _, _, _, _, _), ListEval(_, _, _),
          FnApply(_, _, _, _), Apply(_, _, _, _), CaseMatches(_, _, _),
          CasesFrom(_, _, _, _), CasesEval(_, _, _), AppEval(_, _, _)

\* map(lambda x: x.eval(table), self), consumed left to right.
EvalElems(es, i, acc, table, fuel, kind) ==
  IF i > Len(es) THEN R([k |-> kind, v |-> acc], table)
  ELSE LET e == Eval(es[i], table, fuel)
       IN IF IsErr(e.r) THEN e
          ELSE EvalElems(es, i + 1, Append(acc, e.r), e.t, fuel, kind)

\* List.eval (also Args and Pars): a new list of the same class.
ListEval(self, table, fuel) == EvalElems(self.v, 1, <<>>, table, fuel, self.k)

\* An application that resolves free names in the definition table only.
FnApplyGlobalScope(self, args, table, fuel) ==
  IF fuel = 0 THEN R(Err("RecursionError"), table)
  ELSE LET b == ParsTable(self.pars, args)
       IN IF IsErr(b) THEN R(b, table)
          ELSE LET u == DictOr(defs, b.v)
                   r == Eval(self.body, u.res, fuel - 1)
               IN R(r.r, table)

\* Fn.apply: the body under the caller's table extended with the bindings.
FnApply(self, args, table, fuel) ==
  IF fuel = 0 THEN R(Err("RecursionError"), table)
  ELSE LET b == ParsTable(self.pars, args)
       IN IF IsErr(b) THEN R(b, table)
          ELSE LET u == DictOr(table, b.v)
                   r == Eval(self.body, u.res, fuel - 1)
               IN R(r.r, u.lhs)

\* obj.apply(args, table), dispatched on the class of obj.
Apply(obj, args, table, fuel) ==
  IF obj.k = "Fn" THEN FnApply(obj, args, table, fuel)
  ELSE ExprApply(obj, args, table)

\* Case.matches: the body's value when the condition's value == Id('true'),
\* else None.
CaseMatches(self, table, fuel) ==
  LET c == Eval(self.cond, table, fuel)
  IN IF IsErr(c.r) THEN c
     ELSE IF PyEq(c.r, Id("true")) THEN Eval(self.body, c.t, fuel)
     ELSE R(None, c.t)

\* Cases.eval: the loop from case i on, then the no-match raise.
CasesFrom(self, i, table, fuel) ==
  IF i > Len(self.v)
    THEN R(Raise("NoMatch", <<TableStrErr(table), StrErr(self)>>), table)
    ELSE LET m == CaseMatches(self.v[i], table, fuel)
         IN IF m.r.k # "None" THEN m
            ELSE CasesFrom(self, i + 1, m.t, fuel)

CasesEval(self, table, fuel) == CasesFrom(self, 1, table, fuel)

\* App.eval: callee, then arguments, then the operator arms, then apply.
AppEval(self, table, fuel) ==
  LET o == Eval(self.obj, table, fuel)
  IN IF IsErr(o.r) THEN o
     ELSE LET a == Eval(self.args, o.t, fuel)
          IN IF IsErr(a.r) THEN a
             ELSE IF IsOperator(MatchSubject(self, o.r))
               THEN R(OpResult(MatchSubject(self, o.r).v, a.r.v), a.t)
             ELSE Apply(o.r, a.r, a.t, fuel)

\* node.eval(table), dispatched on the class of node.
Eval(node, table, fuel) ==
  CASE node.k \in {"List", "Args", "Pars"} -> ListEval(node, table, fuel)
    [] node.k = "Cases" -> CasesEval(node, table, fuel)
    [] node.k \in {"App", "App_infix"} -> AppEval(node, table, fuel)
    [] OTHER -> ExprEval(node, table)


(* ------------------------ programs and inputs -------------------------- *)

Eq(a, b) == App_infix(Id("=="), Args(<<a, b>>))

Call(name, as) == App(Id(name), Args(as))

\* Prog.eval's default entry point: main applied to no arguments.
MainApp == Call("main", <<>>)

\* Definition tables as the parser builds them (T.dfn_*, start = dict).
\*   f(x) | x == 1 = "a" | true = "b"        main() = f(1)
ProgGuard ==
  << <<Id("f"), Fn(Pars(<<Id("x")>>),
                   Cases(<<Case(Eq(Id("x"), Num(1)), Str("a")),
                           Case(Id("true"), Str("b"))>>))>>,
     <<Id("main"), Fn(Pars(<<>>), Call("f", <<Num(1)>>))>> >>

\*   f(x) | x <= 0 = "neg" | true = "pos"    main() = f(-1)
ProgNeg ==
  << <<Id("f"), Fn(Pars(<<Id("x")>>),
                   Cases(<<Case(App_infix(Id("<="), Args(<<Id("x"), Num(0)>>)), Str("neg")),
                           Case(Id("true"), Str("pos"))>>))>>,
     <<Id("main"), Fn(Pars(<<>>), Call("f", <<Num(-1)>>))>> >>

\*   main() = 1 + 2 * 3
ProgArith ==
  << <<Id("main"),
       Fn(Pars(<<>>),
          App_infix(Id("+"),
                    Args(<<Num(1), App_infix(Id("*"), Args(<<Num(2), Num(3)>>))>>)))>> >>

\*   x = 1    g(y) = h(0)    h(z) = [y, x, w]    main() = g(5)
ProgScope ==
  << <<Id("x"), Num(1)>>,
     <<Id("g"), Fn(Pars(<<Id("y")>>), Call("h", <<Num(0)>>))>>,
     <<Id("h"), Fn(Pars(<<Id("z")>>), List(<<Id("y"), Id("x"), Id("w")>>))>>,
     <<Id("main"), Fn(Pars(<<>>), Call("g", <<Num(5)>>))>> >>

\*   x = 1    f(x) = x    main() = [f(2), x]
ProgShadow ==
  << <<Id("x"), Num(1)>>,
     <<Id("f"), Fn(Pars(<<Id("x")>>), Id("x"))>>,
     <<Id("main"), Fn(Pars(<<>>), List(<<Call("f", <<Num(2)>>), Id("x")>>))>> >>

\*   f(a, y) = a    main() = f(1)
ProgArity ==
  << <<Id("f"), Fn(Pars(<<Id("a"), Id("y")>>), Id("a"))>>,
     <<Id("main"), Fn(Pars(<<>>), Call("f", <<Num(1)>>))>> >>

\*   main = 5    s = "s"    h = [[1, 2]]
ProgConst ==
  << <<Id("main"), Num(5)>>, <<Id("s"), Str("s")>>,
     <<Id("h"), List(<<List(<<Num(1), Num(2)>>)>>)>> >>

\*   f(x) = f(x)    main() = f(1)
ProgRec ==
  << <<Id("f"), Fn(Pars(<<Id("x")>>), Call("f", <<Id("x")>>))>>,
     <<Id("main"), Fn(Pars(<<>>), Call("f", <<Num(1)>>))>> >>

\*   f(x) | x == 1 = 2    main() = f(3)
ProgNoMatch ==
  << <<Id("f"), Fn(Pars(<<Id("x")>>), Cases(<<Case(Eq(Id("x"), Num(1)), Num(2))>>))>>,
     <<Id("main"), Fn(Pars(<<>>), Call("f", <<Num(3)>>))>> >>

Programs ==
  {ProgGuard, ProgNeg, ProgArith, ProgScope, ProgShadow, ProgArity, ProgConst,
   ProgRec, ProgNoMatch}

\* A user function bound to an operator name.
PlusFn == Fn(Pars(<<Id("a"), Id("y")>>), Num(7))

\* Tables built through the interface: one entry, keyed by any node.
GenKeys == {Id("x"), Str("x"), Num(1), List(<<Id("x")>>), Id("+"), Id("true")}

GenTables ==
  {<<>>} \cup {<< <<key, Num(2)>> >> : key \in GenKeys} \cup
  {<< <<Id("+"), PlusFn>> >>, << <<Id("x"), PlusFn>> >>, << <<Id("x"), Id("y")>> >>,
   << <<Id("x"), Str("true")>> >>, << <<Id("true"), Id("false")>> >>,
   << <<Id("true"), Str("true")>> >>,
   << <<Id("+"), PlusFn>>, <<Id("x"), Num(2)>> >>,
   << <<Id("=="), PlusFn>>, <<Id("/"), Num(2)>>, <<Id("<"), Id("x")>> >>}

Tables == Programs \cup GenTables

Atoms ==
  {Id("x"), Id("y"), Id("w"), Id("true"), Id("false"), Num(0), Num(1), Num(2),
   Str("x"), Str("true"), Str("s")}

Lists ==
  {List(<<a>>) : a \in Atoms} \cup
  {List(<<a, b>>) : a, b \in {Id("x"), Num(1), Str("x")}} \cup
  {List(<<List(<<Id("x"), Num(1)>>)>>)}

OpArgs == {Num(0), Num(1), Num(2), Id("x"), Str("1")}

OpApps ==
  {App_infix(Id(o), Args(<<a, b>>)) : o \in Operators, a, b \in OpArgs} \cup
  {App_infix(Id(o), Args(<<List(<<Num(1)>>), b>>)) :
     o \in {"==", "<", "+"}, b \in {List(<<Num(2)>>), List(<<Id("x")>>), Num(1)}} \cup
  {App(Id("+"), Args(<<Num(1)>>)), App(Id("+"), Args(<<Num(1), Num(2), Num(0)>>)),
   App(Str("+"), Args(<<Num(1), Num(2)>>)), App_infix(Id("<"), Args(<<Id("a"), Id("x")>>))}

\* Argument lists of 0 to 3 elements.
OneArg ==
  {<<a>> : a \in {Num(1), Num(2), Id("a"), Id("true"), Str("s"), Str("true"),
                  List(<<Num(1), Num(2)>>), List(<<Num(1)>>)}}

ArgSeqs ==
  {<<>>} \cup OneArg \cup
  {<<a, b>> : a, b \in {Num(1), Str("s")}} \cup
  {<<Num(1), Num(2), Num(3)>>, <<Str("s"), Num(1), Num(2)>>}

Calls == {Call(c, as) : c \in {"f", "g", "h", "main", "x", "s", "w"}, as \in ArgSeqs}

EvalNodes == Atoms \cup Lists \cup OpApps \cup Calls

\* Conditions and bodies of guard cases over the parameter x.
Conds ==
  {Eq(Id("x"), Num(1)), Id("true"), Id("false"), Id("x"), Str("true"), Num(1),
   Call("w", <<Id("x")>>)}

GuardFns ==
  {Fn(Pars(<<Id("x")>>), Cases(<<Case(c1, Num(1)), Case(c2, b)>>)) :
     c1, c2 \in Conds, b \in {Num(2)}} \cup
  {Fn(Pars(<<Id("x")>>), Cases(<<Case(c, b)>>)) : c \in Conds, b \in {Num(1), Str("a")}} \cup
  {Fn(Pars(<<Id("x")>>),
      Cases(<<Case(Id("false"), Num(1)), Case(c2, Num(2)), Case(c3, Num(3))>>)) :
     c2 \in {Id("true"), Id("x")}, c3 \in {Id("true"), Str("b"), Call("w", <<Id("x")>>)}}

PlainFns ==
  {Fn(Pars(ps), b) :
     ps \in {<<>>, <<Id("x")>>, <<Id("z")>>, <<Id("a"), Id("y")>>, <<Id("x"), Id("x")>>},
     b \in {Id("x"), Id("y"), Id("w"), Num(1), Str("x"), List(<<Id("x"), Id("a")>>)}}

NonFns == {Num(5), Str("s"), Id("w"), List(<<Num(1), Num(2)>>), List(<<Str("s")>>)}

\* The applications tried: <<value applied, evaluated arguments>>.
ApplyCalls ==
  ((PlainFns \cup NonFns) \X ArgSeqs) \cup (GuardFns \X OneArg)

MatchCases == {Case(c, b) : c \in Conds \cup {List(<<Id("true")>>)}, b \in {Num(1), Id("x")}}

(* --------------------------- state machine ----------------------------- *)

Init ==
  /\ defs \in Tables
  /\ op = "none"
  /\ subject = None
  /\ argv = Args(<<>>)
  /\ res = None

\* One run performs one call on the loaded program.
\* Prog.eval(app): app.eval(self.defs)
ProgEval(app) ==
  LET r == Eval(app, defs, MaxDepth)
  IN /\ op = "none"
     /\ op' = "eval"
     /\ subject' = app
     /\ argv' = Args(<<>>)
     /\ res' = r.r
     /\ defs' = r.t

\* value.apply(args, table) on evaluated arguments, with the definition
\* table as the caller's table (Fn.apply, Expr.apply).
ValueApply(f, as) ==
  LET r == Apply(f, Args(as), defs, MaxDepth)
  IN /\ op = "none"
     /\ op' = "apply"
     /\ subject' = f
     /\ argv' = Args(as)
     /\ res' = r.r
     /\ defs' = r.t

\* case.matches(table)
Matches(c) ==
  LET r == CaseMatches(c, defs, MaxDepth)
  IN /\ op = "none"
     /\ op' = "matches"
     /\ subject' = c
     /\ argv' = Args(<<>>)
     /\ res' = r.r
     /\ defs' = r.t

Next ==
  \/ \E app \in EvalNodes \cup {MainApp} : ProgEval(app)
  \/ \E c \in ApplyCalls : ValueApply(c[1], c[2])
  \/ \E c \in MatchCases : Matches(c)

Spec == Init /\ [][Next]_vars


(* ----------------------------- properties ------------------------------ *)

IsTrueId(x) == x.k = "Id" /\ x.v = "true"

IsAtom(x) == x.k \in {"Id", "Num", "Str"}

\* Two atoms are the same dict key: equal texts (Id or Str) or equal numbers.
SameKey(a, b) ==
  \/ a.k \in {"Id", "Str"} /\ b.k \in {"Id", "Str"} /\ a.v = b.v
  \/ a.k = "Num" /\ b.k = "Num" /\ a = b

\* The entry bound to atom x in table, or x itself when no key is x.
Bound(table, x) ==
  IF \E i \in 1..Len(table) : SameKey(table[i][1], x)
    THEN table[CHOOSE i \in 1..Len(table) : SameKey(table[i][1], x)][2]
    ELSE x

\* The table a call of function f sees: the current table with f's
\* parameters bound to the arguments.
Extended(f, as) == Merge(defs, Zip(f.pars.v, as.v, 1, <<>>), 1)

\* The value of the condition of case i of guarded function f in this call.
CondValue(f, as, i) == Eval(f.body.v[i].cond, Extended(f, as), MaxDepth - 1).r

\* A guarded function is being applied to as many arguments as it takes.
GuardCall ==
  /\ op = "apply"
  /\ subject.k = "Fn"
  /\ subject.body.k = "Cases"
  /\ Len(subject.pars.v) = Len(argv.v)

Raised(x, what) == x.k = "Error" /\ x.v = what

\* C2: first match wins.  Applying a guarded function returns the body
\* value of the first case whose condition evaluates to the identifier true
\* (the earlier conditions evaluating to other values), whatever the later
\* cases are.
C2_FirstMatchWins ==
  GuardCall =>
    \A i \in 1..Len(subject.body.v) :
      ( /\ IsTrueId(CondValue(subject, argv, i))
        /\ \A j \in 1..(i - 1) :
             /\ ~IsErr(CondValue(subject, argv, j))
             /\ ~IsTrueId(CondValue(subject, argv, j)) )
      => LET b == Eval(subject.body.v[i].body, Extended(subject, argv), MaxDepth - 1).r
         IN res.k = b.k /\ res = b

\* C3: arity enforcement.  Applying a function of n parameters to m values
\* fails with the arity error whenever m # n, and this application raises no
\* arity error when m = n.
C3_ArityEnforced ==
  (op = "apply" /\ subject.k = "Fn") =>
    (Len(subject.pars.v) # Len(argv.v) <=> Raised(res, "Arity"))

\* C7: guard exhaustion.  Applying a guarded function none of whose
\* conditions evaluates to the identifier true fails with the no-match error.
C7_GuardExhaustion ==
  ( /\ GuardCall
    /\ \A i \in 1..Len(subject.body.v) :
         /\ ~IsErr(CondValue(subject, argv, i))
         /\ ~IsTrueId(CondValue(subject, argv, i)) )
  => Raised(res, "NoMatch")

\* C8: applying a non-function.  An application whose callee is no operator
\* and evaluates to a number, string, list or identifier fails with the
\* not-callable error once its arguments are evaluated, whatever they are.
C8_NotCallable ==
  /\ ( /\ op = "eval"
       /\ subject.k = "App"
       /\ ~(subject.obj.k = "Id" /\ subject.obj.v \in Operators)
       /\ Eval(subject.obj, defs, MaxDepth).r.k \in {"Num", "Str", "List", "Id"}
       /\ ~IsErr(Eval(subject.args, defs, MaxDepth).r) )
     => Raised(res, "NotCallable")
  /\ (op = "apply" /\ subject.k \in {"Num", "Str", "List", "Id"})
     => Raised(res, "NotCallable")

\* C9: a case matches (returns its body's value, not None) if and only if
\* its condition evaluates to the identifier true; a string "true" or any
\* other value does not match.
C9_MatchesIffTrueId ==
  (op = "matches" /\ ~IsErr(Eval(subject.cond, defs, MaxDepth).r)) =>
    (res.k # "None" <=> IsTrueId(Eval(subject.cond, defs, MaxDepth).r))

\* C10: keys respect the node kind.  Under a table whose keys are all
\* identifiers, a string literal evaluates to itself.
C10_StringsAreNotIdentifiers ==
  ( /\ op = "eval"
    /\ subject.k = "Str"
    /\ \A i \in 1..Len(defs) : defs[i][1].k = "Id" )
  => res.k = "Str" /\ res = subject


\* An application of an operator identifier to two or more arguments.
OperatorCall(x) ==
  /\ x.k \in {"App", "App_infix"}
  /\ x.obj.k = "Id"
  /\ x.obj.v \in Operators
  /\ Len(x.args.v) >= 2

\* An entry that binds an operator name.
BindsOperator(e) == e[1].k \in {"Id", "Str"} /\ e[1].v \in Operators

\* The table without its operator bindings.
Unshadowed(table) == SelectSeq(table, LAMBDA e : ~BindsOperator(e))

OnePlusTwo == App_infix(Id("+"), Args(<<Num(1), Num(2)>>))

\* What each operator yields on the numbers 1 and 2.
OnOneTwo ==
  [o \in Operators |->
     CASE o = "==" -> Id("false") [] o = "<>" -> Id("true")
       [] o = "<=" -> Id("true")  [] o = ">=" -> Id("false")
       [] o = "<" -> Id("true")   [] o = ">" -> Id("false")
       [] o = "+" -> Num(3)       [] o = "-" -> Num(-1)
       [] o = "*" -> Num(2)       [] o = "/" -> Frac(1, 2)]

\* C4: operators are not shadowable.  The result of an operator application
\* is the one it has under the same table without any binding of an operator
\* name, and on the literals 1 and 2 it is the arithmetic or comparison
\* result whatever the table binds the operator to.
C4_OperatorsNotShadowable ==
  (op = "eval" /\ OperatorCall(subject)) =>
    /\ LET plain == Eval(subject, Unshadowed(defs), MaxDepth).r
       IN res.k = plain.k /\ res = plain
    /\ ( /\ subject.args.v = <<Num(1), Num(2)>>
         /\ \A i \in 1..Len(defs) : defs[i][1].k # "Num" )
       => res.k = OnOneTwo[subject.obj.v].k /\ res = OnOneTwo[subject.obj.v]

\* 1 + 2 has been evaluated to 3 under a table that binds + to a function.
C4_Witness ==
  /\ op = "eval"
  /\ subject = OnePlusTwo
  /\ HasKey(defs, Id("+"))
  /\ Lookup(defs, Id("+")).k = "Fn"
  /\ res = Num(3)

\* The last argument bound to parameter p in a call with arguments as.
ArgOf(ps, as, p) == as[CHOOSE i \in 1..Len(ps) : ps[i] = p /\ \A j \in (i + 1)..Len(ps) : ps[j] # p]

\* C5: caller-environment scoping.  A function whose body is an identifier,
\* applied under a table, returns the argument when the identifier is a
\* parameter, else the entry the caller's table binds to it, else the
\* identifier itself; and in  x = 1, g(y) = h(0), h(z) = [y, x, w]  the call
\* g(a) returns [a, 1, w]: h sees g's parameter y, the constant x, and the
\* unbound w as itself.
C5_DynamicScoping ==
  /\ ( /\ op = "apply"
       /\ subject.k = "Fn"
       /\ subject.body.k = "Id"
       /\ Len(subject.pars.v) = Len(argv.v) )
     => LET want == IF \E i \in 1..Len(subject.pars.v) : subject.pars.v[i] = subject.body
                      THEN ArgOf(subject.pars.v, argv.v, subject.body)
                      ELSE Bound(defs, subject.body)
        IN res.k = want.k /\ res = want
  /\ ( /\ op = "eval"
       /\ defs = ProgScope
       /\ subject.k = "App"
       /\ subject.obj = Id("g")
       /\ Len(subject.args.v) = 1
       /\ IsAtom(subject.args.v[1]) )
     => /\ res.k = "List"
        /\ res = List(<<Bound(defs, subject.args.v[1]), Num(1), Id("w")>>)
  /\ (op = "eval" /\ defs = ProgScope /\ subject = MainApp)
     => res.k = "List" /\ res = List(<<Num(5), Num(1), Id("w")>>)

\* main() = g(5) has returned [5, 1, w].
C5_Witness ==
  /\ op = "eval"
  /\ defs = ProgScope
  /\ subject = MainApp
  /\ res = List(<<Num(5), Num(1), Id("w")>>)

\* C6: environments are never mutated.  Every call, returning or raising,
\* leaves the table it was given with the same keys and values; in
\* x = 1, f(x) = x, main() = [f(2), x]  the parameter x is 2 inside f and x is
\* the constant 1 again after f returned; and a function applied under a
\* table that binds its parameter leaves that binding in place.
C6_EnvironmentsNotMutated ==
  [][ /\ defs' = defs
      /\ (defs = ProgShadow /\ op' = "eval" /\ subject' = MainApp)
         => res'.k = "List" /\ res' = List(<<Num(2), Num(1)>>)
    ]_vars

\* [f(2), x] has been evaluated to [2, 1] with x still bound to 1.
C6_Witness ==
  /\ op = "eval"
  /\ subject = MainApp
  /\ res = List(<<Num(2), Num(1)>>)
  /\ defs = ProgShadow
  /\ Lookup(defs, Id("x")) = Num(1)


====
